---- MODULE Spec2Model ----
(***************************************************************************)
(* DeepProbe: the resilient long-running-operation client                  *)
(* (src/src/deep_probe/core.py).  One behaviour of this module is one call *)
(* of research() or resume() against an arbitrary remote: the submission   *)
(* retry loop (_start_research_with_retry), the poll loop                  *)
(* (_poll_until_complete) and the normalisation of the final response      *)
(* (_build_result).                                                        *)
(*                                                                         *)
(* Texts whose content the code inspects (error messages) are sequences of *)
(* characters, so that lower-casing and substring search are computed.     *)
(* Durations are whole seconds.                                            *)
(***************************************************************************)
EXTENDS Integers, Sequences, FiniteSets, TLC

\* ------------------------------------------------------------------ bounds
\* max_retries ranges over 0..MaxRetries (the rate-limit cap needs 6 attempts)
MaxRetries == 5
\* base_retry_delay ranges over 1..MaxBaseDelay seconds
MaxBaseDelay == 2
\* poll_interval, in seconds
PollInterval == 2
\* total_timeout, in seconds
TotalTimeout == 4
\* a remote call takes 0..MaxLatency seconds
MaxLatency == 1
\* research_stream: max_retries ranges over 0..MaxStreamRetries
MaxStreamRetries == 2
\* research_stream: events received over all streams of one call
MaxEvents == 3
\* research_stream: streaming get-by-id calls followed in one call
MaxStreamGets == 4
\* longest outputs list handed to _build_result
MaxOutputs == 3
\* research_async: operations running at once on one instance
NumOps == 2
\* research_async: get calls one concurrent operation makes
MaxPolls == 2
\* poll loop under fairness: get calls of one call, more than total_timeout
\* lets through
MaxPollGets == 7

\* ------------------------------------------------------- program constants
\* max_rate_limit_retries (core.py:144)
max_rate_limit_retries == 5
\* the rate-limit backoff: base, exponent cap and ceiling (core.py:168)
RateBase == 60
RateExpCap == 2
RateCeiling == 300
\* status_code of the rate-limit ProbeAPIError (core.py:183)
RateStatusCode == 429
\* the reconnection backoff: exponent cap and ceiling (core.py:535)
ReconnectExpCap == 3
ReconnectCeiling == 30
\* max_reconnect_attempts = max_retries * 2 (core.py:515)
ReconnectFactor == 2
\* ConnectionConfig.max_retry_delay default (_reconnect.py:25)
DefaultMaxRetryDelay == 60

\* ------------------------------------------------------------------- texts
Absent == "<absent>"
NoneVal == "<None>"

UpperChars == <<"A","B","C","D","E","F","G","H","I","J","K","L","M",
                "N","O","P","Q","R","S","T","U","V","W","X","Y","Z">>
LowerChars == <<"a","b","c","d","e","f","g","h","i","j","k","l","m",
                "n","o","p","q","r","s","t","u","v","w","x","y","z">>

\* str.lower() on one character
LowerChar(c) ==
    IF \E i \in 1..Len(UpperChars) : UpperChars[i] = c
    THEN LowerChars[CHOOSE i \in 1..Len(UpperChars) : UpperChars[i] = c]
    ELSE c

\* str.lower()
Lower(s) == [i \in 1..Len(s) |-> LowerChar(s[i])]

\* the Python test `needle in hay`
Contains(needle, hay) ==
    \E i \in 1..(Len(hay) - Len(needle) + 1) :
        SubSeq(hay, i, i + Len(needle) - 1) = needle

\* the substrings the submission loop searches for
AuthNeedles == { <<"a","u","t","h">>,
                 <<"a","p","i"," ","k","e","y">>,
                 <<"u","n","a","u","t","h","o","r","i","z","e","d">>,
                 <<"4","0","1">> }
RateNeedles == { <<"4","2","9">>,
                 <<"t","o","o","_","m","a","n","y","_","r","e","q","u","e","s","t","s">>,
                 <<"q","u","o","t","a">>,
                 <<"r","a","t","e"," ","l","i","m","i","t">> }

\* error texts the remote client may raise
MsgUnauthorized == <<"U","n","a","u","t","h","o","r","i","z","e","d",":"," ","4","0","1">>
MsgApiKey == <<"I","n","v","a","l","i","d"," ","A","P","I"," ","K","e","y">>
MsgQuota == <<"Q","u","o","t","a"," ","e","x","c","e","e","d","e","d">>
Msg429 == <<"H","T","T","P"," ","4","2","9">>
MsgOAuthQuota == <<"O","A","u","t","h"," ","q","u","o","t","a">>
MsgConnection == <<"C","o","n","n","e","c","t","i","o","n"," ","f","a","i","l","e","d">>

CreateErrors == {MsgUnauthorized, MsgApiKey, MsgQuota, Msg429, MsgOAuthQuota, MsgConnection}
GetErrors == {MsgConnection, MsgUnauthorized}

\* "auth" in error_msg or "api key" in error_msg or ... (core.py:161)
IsAuthErrorNoLower(e) == \E n \in AuthNeedles : Contains(n, e)
IsAuthError(e) == \E n \in AuthNeedles : Contains(n, Lower(e))

\* "429" in error_msg or "too_many_requests" in error_msg or ... (core.py:165)
IsRateLimitError(e) == \E n \in RateNeedles : Contains(n, Lower(e))


\* ------------------------------------------------------- remote responses
\* status strings the remote may report
StCompleted == <<"c","o","m","p","l","e","t","e","d">>
StFailed == <<"f","a","i","l","e","d">>
StCancelled == <<"c","a","n","c","e","l","l","e","d">>
StInProgress == <<"i","n","_","p","r","o","g","r","e","s","s">>
StRunning == <<"r","u","n","n","i","n","g">>
StPending == <<"p","e","n","d","i","n","g">>

\* what interactions.create returns: the candidate identifier fields
CreateResponses ==
    { [id |-> "op1", interaction_id |-> Absent, uuid |-> Absent, uid |-> Absent],
      [id |-> "op1", interaction_id |-> "op2", uuid |-> Absent, uid |-> Absent],
      [id |-> Absent, interaction_id |-> "op1", uuid |-> Absent, uid |-> Absent],
      [id |-> Absent, interaction_id |-> Absent, uuid |-> Absent, uid |-> Absent] }

Out(text, thought) == [text |-> text, thought_summary |-> thought]

\* the top-level "response" field of a get response: absent, an object with
\* optional text and content, or a plain string (kept in text)
NoResponse == [kind |-> "absent", text |-> Absent, content |-> Absent]
RespObject(text, content) == [kind |-> "object", text |-> text, content |-> content]
RespString(str) == [kind |-> "string", text |-> str, content |-> Absent]

\* usage_metadata of a get response: 0 stands for a missing, None or zero count
UsageMeta(prompt, input, candidates, output, total_count, total) ==
    [prompt_token_count |-> prompt, input_tokens |-> input,
     candidates_token_count |-> candidates, output_tokens |-> output,
     total_token_count |-> total_count, total_tokens |-> total]
NoUsageMeta == UsageMeta(0, 0, 0, 0, 0, 0)

\* has_status / has_outputs / has_citations / has_usage: whether the attribute
\* exists on the object
Interaction(status, has_outputs, outputs, response) ==
    [has_status |-> TRUE, status |-> status, has_outputs |-> has_outputs,
     outputs |-> outputs, response |-> response,
     has_citations |-> FALSE, citations |-> <<>>,
     has_usage |-> FALSE, usage_metadata |-> NoUsageMeta]

\* a get response that also carries citations and usage metadata
WithSources(interaction, citations, meta) ==
    [interaction EXCEPT !.has_citations = TRUE, !.citations = citations,
                        !.has_usage = TRUE, !.usage_metadata = meta]

\* one remote citation item: url, title, snippet (Absent when missing)
Cite(url, title, snippet) == [url |-> url, title |-> title, snippet |-> snippet]

\* what interactions.get returns: status, outputs, fallback response field
GetResponses ==
    { Interaction(StPending, FALSE, <<>>, NoResponse),
      Interaction(StInProgress, TRUE, <<Out(Absent, "T1")>>, NoResponse),
      Interaction(StInProgress, TRUE, <<Out(Absent, "T1"), Out(Absent, "T2")>>,
                  NoResponse),
      Interaction(StCancelled, TRUE, <<>>, NoResponse),
      Interaction(StFailed, TRUE, <<>>, NoResponse),
      Interaction(StCompleted, TRUE,
                  <<Out("Draft", "T1"), Out("Report body", NoneVal), Out("", Absent)>>,
                  NoResponse),
      Interaction(StCompleted, TRUE, <<>>, RespObject("X", Absent)) }

\* no create response
NoCreated == [id |-> Absent, interaction_id |-> Absent, uuid |-> Absent,
              uid |-> Absent]

\* a response exposing any subset of the candidate identifier fields
CreateShapes ==
    [id : {Absent, "a"}, interaction_id : {Absent, "b"}, uuid : {Absent, "c"},
     uid : {Absent, "d"}]

\* what the non-streaming fallback get of research_stream returns
FallbackResponses ==
    { WithSources(Interaction(StCompleted, TRUE, <<Out("Final report", Absent)>>,
                              NoResponse),
                  <<Cite("http://a", "A", Absent), Cite(Absent, Absent, "s")>>,
                  UsageMeta(0, 7, 11, 0, 0, 18)),
      Interaction(StCompleted, TRUE, <<Out("Final report", Absent)>>, NoResponse),
      Interaction(StInProgress, TRUE, <<>>, NoResponse) }

NoInteraction == [Interaction(<<>>, FALSE, <<>>, NoResponse) EXCEPT !.has_status = FALSE]

ThoughtValues == {"T1", "T2", NoneVal}

\* identifiers a caller may hand to resume()
ResumeIds == {"op1", ""}

\* ---------------------------------------------------------- stream events
\* one chunk of an event stream; Absent marks a missing attribute
Event(event_type, event_id, iid, delta_type, text, has_error, error) ==
    [event_type |-> event_type, event_id |-> event_id, iid |-> iid,
     delta_type |-> delta_type, text |-> text, has_error |-> has_error,
     error |-> error]

MsgServerError == <<"S","e","r","v","e","r"," ","e","r","r","o","r">>

EvStart == Event("interaction.start", "e1", "s1", Absent, Absent, FALSE, <<>>)
EvHello == Event("content.delta", "e2", Absent, "text", "Hello ", FALSE, <<>>)
EvWorld == Event("content.delta", Absent, Absent, "text", "World", FALSE, <<>>)
EvThought == Event("content.delta", "e3", Absent, "thought_summary", "T1", FALSE, <<>>)
EvComplete == Event("interaction.complete", "e4", Absent, Absent, Absent, FALSE, <<>>)
EvError == Event("error", Absent, Absent, Absent, Absent, TRUE, MsgServerError)

NoEvent == Event("none", Absent, Absent, Absent, Absent, FALSE, <<>>)

Events == {EvStart, EvHello, EvWorld, EvThought, EvComplete, EvError}

\* an exception of the remote client: its class family and its text
OsError(msg) == [cls |-> "OSError", msg |-> msg]
OtherError(msg) == [cls |-> "Exception", msg |-> msg]
\* the ProbeAPIError process_stream raises (core.py:460-463); its text starts
\* with "Research error: "
ApiError(error) == [cls |-> "ProbeAPIError", msg |-> <<"R","e","s","e","a","r","c","h"," ","e","r","r","o","r",":"," ">> \o error]

MsgConnClosed == <<"C","o","n","n","e","c","t","i","o","n"," ","c","l","o","s","e","d">>
MsgUnreachable == <<"N","e","t","w","o","r","k"," ","u","n","r","e","a","c","h","a","b","l","e">>
MsgConnReset == <<"c","o","n","n","e","c","t","i","o","n"," ","r","e","s","e","t">>

StreamErrors == {OsError(MsgConnClosed), OsError(MsgUnreachable),
                 OtherError(MsgConnReset), OtherError(MsgServerError)}

\* ---------------------------------------------------------- configuration
\* ConnectionConfig (_reconnect.py:21-27): the fields the poll path reads
Configs ==
    [max_retries : 0..MaxRetries,
     base_retry_delay : 1..MaxBaseDelay,
     max_retry_delay : {DefaultMaxRetryDelay},
     poll_interval : {PollInterval},
     total_timeout : {TotalTimeout}]

\* the configurations research_stream is run with: the default delays
\* (base_retry_delay 2, max_retry_delay 60), and a slower base with a lower cap
StreamDelays == {<<2, DefaultMaxRetryDelay>>, <<4, 10>>}
StreamConfigs ==
    { [max_retries |-> m, base_retry_delay |-> d[1], max_retry_delay |-> d[2],
       poll_interval |-> PollInterval, total_timeout |-> TotalTimeout] :
      m \in 0..MaxStreamRetries, d \in StreamDelays }

\* ------------------------------------------------------------------ state
VARIABLES
    op,                 \* the entry point called: "research", "resume" or "stream"
    cfg,                \* self.config
    on_thought,         \* TRUE when a thought callback is registered
    pc,                 \* "create", "poll", "done" (returned) or "raised"
    attempt,            \* loop index of _start_research_with_retry
    rate_limit_retries, \* rate-limit retries made so far
    last_error,         \* text of the last exception caught
    interaction_id,     \* the operation identifier held by the client
    consecutive_errors, \* consecutive failed polls
    clock,              \* time.time() - start_time, seconds since poll entry
    result,             \* the ResearchResult returned
    exc,                \* the exception raised to the caller
    creates,            \* interactions.create calls issued
    gets,               \* interactions.get calls issued
    nSleeps,            \* time.sleep calls made
    pollSleeps,         \* of which sleeps of poll_interval
    rate_delays,        \* the rate-limit delays slept, in order
    lastEv,             \* the most recent remote call or sleep
    delivered,          \* times each thought summary was passed to on_thought
    lastStatus,         \* status of the most recent get response
    nonTerminal,        \* get responses that were neither completed nor failed
    failures,           \* remote calls that raised
    rateFails,          \* create calls that raised a rate-limit (not auth) error
    ordFails,           \* create calls that raised an ordinary transient error
    final_interaction,  \* the response handed to _build_result
    caller_id,          \* the identifier the caller passed to resume()
    lastGetId,          \* the id passed to the most recent get call
    on_text,            \* TRUE when a text callback is registered
    is_complete,        \* research_stream: is_complete
    last_event_id,      \* research_stream: last_event_id
    report_parts,       \* research_stream: report_parts
    thoughts,           \* research_stream: thoughts
    retry_count,        \* research_stream: retry_count of the reconnection loop
    sgets,              \* streaming get-by-id calls issued
    events,             \* events received over all streams of the call
    lastChunk,          \* the most recent event received
    errorEvents,        \* 'error' events received
    textsReceived,      \* the text deltas received, in arrival order
    text_calls,         \* the arguments on_text was called with, in order
    thought_calls,      \* the arguments on_thought was called with, in order
    lastResume,         \* last_event_id passed to the most recent streaming get
    lastWait,           \* seconds slept just before the most recent streaming get
    streamOutcome,      \* how the most recent remote call or stream ended
    createdBare,        \* TRUE when the create response exposed no identifier field
    last_activity,      \* ReconnectionManager._last_activity, as the number of
                        \* remote calls made when it was last set
    created,            \* the response handed to _extract_interaction_id when
                        \* the function is run on its own
    client,             \* DeepProbe._client: 0 for None, else the operation
                        \* whose constructor call made it
    threads,            \* research_async: each concurrent operation's position
                        \* and locals
    accessed            \* which operations have read and written each
                        \* attribute of the shared instance

vars == <<op, cfg, on_thought, pc, attempt, rate_limit_retries, last_error,
          interaction_id, consecutive_errors, clock, result, exc, creates, gets,
          nSleeps, pollSleeps, rate_delays, lastEv, delivered, lastStatus,
          nonTerminal, failures, rateFails, ordFails, final_interaction,
          caller_id, lastGetId, on_text, is_complete, last_event_id,
          report_parts, thoughts, retry_count, sgets, events, lastChunk,
          errorEvents, textsReceived, text_calls, thought_calls, lastResume,
          lastWait, streamOutcome, createdBare, last_activity, created,
          client, threads, accessed>>

\* an exception raised to the caller; status_code 0 and elapsed_seconds -1
\* stand for None
NoExc == [kind |-> "none", interaction_id |-> NoneVal, status_code |-> 0,
          elapsed_seconds |-> -1]
Exc(kind, id, code, elapsed) ==
    [kind |-> kind, interaction_id |-> id, status_code |-> code,
     elapsed_seconds |-> elapsed]

Ev(kind, why, secs) == [kind |-> kind, why |-> why, secs |-> secs]


\* TokenUsage (models.py:36-41)
TokenUsage(input, output, total) ==
    [input_tokens |-> input, output_tokens |-> output, total_tokens |-> total]

NoResult == [report |-> Absent, sources |-> <<>>, thoughts |-> <<>>,
             cost_usage |-> TokenUsage(0, 0, 0), interaction_id |-> Absent,
             status |-> Absent]

\* ---------------------------------------------------------- pure helpers
\* Python truthiness of an optional string attribute
Truthy(v) == v \notin {Absent, NoneVal, ""}

\* _extract_interaction_id (core.py:263-273); Absent stands for the raise
ExtractIdOrUnknown(interaction) ==
    IF interaction.id # Absent THEN interaction.id
    ELSE IF interaction.interaction_id # Absent THEN interaction.interaction_id
    ELSE IF interaction.uuid # Absent THEN interaction.uuid
    ELSE IF interaction.uid # Absent THEN interaction.uid
    ELSE "unknown"
ExtractIdInteractionIdFirst(interaction) ==
    IF interaction.interaction_id # Absent THEN interaction.interaction_id
    ELSE IF interaction.id # Absent THEN interaction.id
    ELSE IF interaction.uuid # Absent THEN interaction.uuid
    ELSE IF interaction.uid # Absent THEN interaction.uid
    ELSE Absent
ExtractId(interaction) ==
    IF interaction.id # Absent THEN interaction.id
    ELSE IF interaction.interaction_id # Absent THEN interaction.interaction_id
    ELSE IF interaction.uuid # Absent THEN interaction.uuid
    ELSE IF interaction.uid # Absent THEN interaction.uid
    ELSE Absent

Min(a, b) == IF a <= b THEN a ELSE b

\* delay = min(60 * (2 ** min(rate_limit_retries, 2)), 300)  (core.py:168)
RateLimitDelayNoExpCap(n) == Min(RateBase * (2 ^ n), RateCeiling)
RateLimitDelay(n) == Min(RateBase * (2 ^ Min(n, RateExpCap)), RateCeiling)

\* delay = base_retry_delay * (2 ** attempt)  (core.py:189)
SubmitRetryDelayLinear(base, k) == base * (k + 1)
SubmitRetryDelay(base, k) == base * (2 ^ k)

\* base_retry_delay * consecutive_errors  (core.py:257)
PollRetryDelayAsPollInterval(base, n) == cfg.poll_interval
PollRetryDelay(base, n) == base * n

\* the report loop of _build_result (core.py:283-285): last non-empty text wins
RECURSIVE ReportLoopFirstWins(_, _)
ReportLoopFirstWins(outputs, report) ==
    IF outputs = <<>> THEN report
    ELSE ReportLoopFirstWins(Tail(outputs),
                             IF report = "" /\ Truthy(Head(outputs).text)
                             THEN Head(outputs).text ELSE report)
RECURSIVE ReportLoopEmptyOverwrites(_, _)
ReportLoopEmptyOverwrites(outputs, report) ==
    IF outputs = <<>> THEN report
    ELSE ReportLoopEmptyOverwrites(Tail(outputs),
                                   IF Head(outputs).text \notin {Absent, NoneVal}
                                   THEN Head(outputs).text ELSE report)
RECURSIVE ReportLoop(_, _)
ReportLoop(outputs, report) ==
    IF outputs = <<>> THEN report
    ELSE ReportLoop(Tail(outputs),
                    IF Truthy(Head(outputs).text) THEN Head(outputs).text ELSE report)

\* the fallback chain of _build_result (core.py:297-305)
ReportFallback(response) ==
    IF response.kind = "object"
    THEN IF response.text # Absent THEN response.text
         ELSE IF response.content # Absent THEN response.content
         ELSE ""
    ELSE IF response.kind = "string" THEN response.text
    ELSE ""

\* the thought loop of _build_result (core.py:287-294)
RECURSIVE ThoughtLoop(_)
ThoughtLoop(outputs) ==
    IF outputs = <<>> THEN <<>>
    ELSE (IF Truthy(Head(outputs).thought_summary)
          THEN <<[content |-> Head(outputs).thought_summary, phase |-> "thinking"]>>
          ELSE <<>>) \o ThoughtLoop(Tail(outputs))

\* status_map.get(str(interaction.status).lower(), COMPLETED) (core.py:336-346)
StatusMapCaseSensitive(interaction) ==
    IF ~interaction.has_status THEN "COMPLETED"
    ELSE LET s == interaction.status IN
         CASE s = StCompleted -> "COMPLETED"
           [] s = StFailed -> "FAILED"
           [] s = StCancelled -> "CANCELLED"
           [] s = StInProgress -> "RUNNING"
           [] s = StRunning -> "RUNNING"
           [] s = StPending -> "PENDING"
           [] OTHER -> "COMPLETED"
StatusMap(interaction) ==
    IF ~interaction.has_status THEN "COMPLETED"
    ELSE LET s == Lower(interaction.status) IN
         CASE s = StCompleted -> "COMPLETED"
           [] s = StFailed -> "FAILED"
           [] s = StCancelled -> "CANCELLED"
           [] s = StInProgress -> "RUNNING"
           [] s = StRunning -> "RUNNING"
           [] s = StPending -> "PENDING"
           [] OTHER -> "COMPLETED"

\* the citation loop of _build_result (core.py:308-317)
RECURSIVE CitationLoop(_)
CitationLoop(citations) ==
    IF citations = <<>> THEN <<>>
    ELSE LET c == Head(citations) IN
         <<[url |-> IF c.url = Absent THEN "" ELSE c.url,
            title |-> IF c.title = Absent THEN NoneVal ELSE c.title,
            snippet |-> IF c.snippet = Absent THEN NoneVal ELSE c.snippet]>>
         \o CitationLoop(Tail(citations))

\* a or b or 0 on two optional counts
OrElse(a, b) == IF a # 0 THEN a ELSE b

\* the usage block of _build_result (core.py:320-333)
UsageOf(interaction) ==
    IF interaction.has_usage
    THEN LET m == interaction.usage_metadata IN
         TokenUsage(OrElse(m.prompt_token_count, m.input_tokens),
                    OrElse(m.candidates_token_count, m.output_tokens),
                    OrElse(m.total_token_count, m.total_tokens))
    ELSE TokenUsage(0, 0, 0)

\* _build_result (core.py:275-355)
BuildResult(interaction, id) ==
    LET fromOutputs == IF interaction.has_outputs
                       THEN ReportLoop(interaction.outputs, "") ELSE ""
        report == IF fromOutputs = "" THEN ReportFallback(interaction.response)
                  ELSE fromOutputs
    IN [report |-> report,
        sources |-> IF interaction.has_citations
                    THEN CitationLoop(interaction.citations) ELSE <<>>,
        thoughts |-> IF interaction.has_outputs
                     THEN ThoughtLoop(interaction.outputs) ELSE <<>>,
        cost_usage |-> UsageOf(interaction),
        interaction_id |-> id,
        status |-> StatusMap(interaction)]

\* the callback loop of the poll body (core.py:238-241): on_thought once per
\* output that has a thought_summary attribute
RECURSIVE Deliver(_, _)
Deliver(outputs, counts) ==
    IF outputs = <<>> THEN counts
    ELSE LET t == Head(outputs).thought_summary IN
         Deliver(Tail(outputs),
                 IF t # Absent THEN [counts EXCEPT ![t] = @ + 1] ELSE counts)

\* ------------------------------------------------------------------- Init
\* research(topic, on_thought) or resume(interaction_id) has just been called
\* where each entry point starts: research() submits (core.py:105),
\* resume() goes straight to _poll_until_complete (core.py:375),
\* research_stream() opens the create stream (core.py:473-475)
EntryPcResumeSubmits(o) ==
    CASE o = "research" -> "create"
      [] o = "resume" -> "create"
      [] o = "stream" -> "s_create"
EntryPc(o) ==
    CASE o = "research" -> "create"
      [] o = "resume" -> "poll"
      [] o = "stream" -> "s_create"

\* the attributes of the instance that outlive a call
SharedAttributes == {"_client", "_last_activity"}

\* one call on the instance: no executor threads, no client made yet
\* (core.py:70)
NoThreads ==
    /\ client = 0
    /\ threads = <<>>
    /\ accessed = [a \in SharedAttributes |-> [readers |-> {}, writers |-> {}]]

\* the locals and counters of a call before its first step
Fresh ==
    /\ lastGetId = Absent
    /\ is_complete = FALSE
    /\ last_event_id = NoneVal
    /\ report_parts = <<>>
    /\ thoughts = <<>>
    /\ retry_count = 0
    /\ sgets = 0
    /\ events = 0
    /\ lastChunk = NoEvent
    /\ errorEvents = 0
    /\ textsReceived = <<>>
    /\ text_calls = <<>>
    /\ thought_calls = <<>>
    /\ lastResume = Absent
    /\ lastWait = 0
    /\ streamOutcome = "none"
    /\ createdBare = FALSE
    /\ last_activity = 0
    /\ attempt = 0
    /\ rate_limit_retries = 0
    /\ last_error = <<>>
    /\ consecutive_errors = 0
    /\ clock = 0
    /\ result = NoResult
    /\ exc = NoExc
    /\ creates = 0
    /\ gets = 0
    /\ nSleeps = 0
    /\ pollSleeps = 0
    /\ rate_delays = <<>>
    /\ lastEv = Ev("none", "", 0)
    /\ delivered = [t \in ThoughtValues |-> 0]
    /\ lastStatus = <<>>
    /\ nonTerminal = 0
    /\ failures = 0
    /\ rateFails = 0
    /\ ordFails = 0

Init ==
    /\ op \in {"research", "resume", "stream"}
    /\ cfg \in (IF op = "stream" THEN StreamConfigs ELSE Configs)
    /\ on_thought \in (IF op = "resume" THEN {FALSE} ELSE BOOLEAN)
    \* research_stream is called with both callbacks or with neither
    /\ on_text = (op = "stream" /\ on_thought)
    /\ pc = EntryPc(op)
    /\ interaction_id \in (IF op = "resume" THEN ResumeIds ELSE {Absent})
    /\ caller_id = interaction_id
    /\ final_interaction = NoInteraction
    /\ created = NoCreated
    /\ NoThreads
    /\ Fresh

pollOnly == <<consecutive_errors, clock, gets, pollSleeps, delivered, lastStatus,
              nonTerminal, final_interaction, result, lastGetId, createdBare,
              last_activity>>
submitOnly == <<attempt, rate_limit_retries, last_error, creates, rate_delays,
                rateFails, ordFails>>
instance == <<client, threads, accessed>>
entry == <<op, cfg, on_thought, on_text, caller_id, created, instance>>
streamOnly == <<is_complete, last_event_id, report_parts, thoughts, retry_count,
                sgets, events, lastChunk, errorEvents, textsReceived, text_calls,
                thought_calls, lastResume, lastWait, streamOutcome>>
fixed == <<entry, streamOnly>>

\* time.time() as the activity tracker sees it: the number of remote calls
\* made so far (_reconnect.py:59)
Now(c, g, sg) == c + g + sg

\* ReconnectionManager.reset_keepalive (_reconnect.py:57-59)
ResetKeepalive(now) == now

\* ----------------------------------------------------------------- submit
\* interactions.create returns (core.py:148-155), then research() extracts the
\* identifier (core.py:108) and enters _poll_until_complete (core.py:206-208)
CreateOk(resp) ==
    /\ pc = "create"
    /\ creates' = creates + 1
    /\ last_activity' = ResetKeepalive(Now(creates', gets, sgets))
    /\ createdBare' = (/\ resp.id = Absent /\ resp.interaction_id = Absent
                       /\ resp.uuid = Absent /\ resp.uid = Absent)
    /\ lastEv' = Ev("create", "ok", 0)
    /\ IF ExtractId(resp) = Absent
       THEN /\ pc' = "raised"
            /\ exc' = Exc("ProbeNetworkError", NoneVal, 0, -1)
            /\ UNCHANGED interaction_id
       ELSE /\ pc' = "poll"
            /\ interaction_id' = ExtractId(resp)
            /\ UNCHANGED exc
    /\ consecutive_errors' = 0
    /\ clock' = 0
    /\ UNCHANGED <<fixed, lastGetId, attempt, rate_limit_retries, last_error, rate_delays,
                   gets, nSleeps, pollSleeps, delivered, lastStatus, nonTerminal,
                   failures, rateFails, ordFails, final_interaction, result>>

\* the end of one loop iteration that slept: the for loop advances, and when
\* range(max_retries + 1) is used up the code falls through to core.py:195-196
AfterSleepKeepsAttempt ==
    /\ pc' = "create"
    /\ UNCHANGED <<exc, attempt>>
AfterSleep ==
    IF attempt < cfg.max_retries
    THEN /\ attempt' = attempt + 1
         /\ pc' = "create"
         /\ UNCHANGED exc
    ELSE /\ pc' = "raised"
         /\ exc' = Exc("ProbeNetworkError", NoneVal, 0, -1)
         /\ UNCHANGED attempt

\* interactions.create raises e (core.py:156-192)
CreateFail(e) ==
    /\ pc = "create"
    /\ creates' = creates + 1
    /\ failures' = failures + 1
    /\ last_error' = e
    /\ rateFails' = rateFails + (IF ~IsAuthError(e) /\ IsRateLimitError(e) THEN 1 ELSE 0)
    /\ ordFails' = ordFails + (IF ~IsAuthError(e) /\ ~IsRateLimitError(e) THEN 1 ELSE 0)
    /\ IF IsAuthError(e)
       THEN \* core.py:161-162
            /\ pc' = "raised"
            /\ exc' = Exc("ProbeAuthError", NoneVal, 0, -1)
            /\ lastEv' = Ev("create", "auth", 0)
            /\ UNCHANGED <<attempt, rate_limit_retries, rate_delays, nSleeps>>
       ELSE IF IsRateLimitError(e)
       THEN IF rate_limit_retries < max_rate_limit_retries
            THEN \* core.py:166-178
                 /\ rate_limit_retries' = rate_limit_retries + 1
                 /\ rate_delays' = Append(rate_delays, RateLimitDelay(rate_limit_retries))
                 /\ nSleeps' = nSleeps + 1
                 /\ lastEv' = Ev("sleep", "rate", RateLimitDelay(rate_limit_retries))
                 /\ AfterSleep
            ELSE \* core.py:179-185
                 /\ pc' = "raised"
                 /\ exc' = Exc("ProbeAPIError", NoneVal, RateStatusCode, -1)
                 /\ lastEv' = Ev("create", "rate", 0)
                 /\ UNCHANGED <<attempt, rate_limit_retries, rate_delays, nSleeps>>
       ELSE IF attempt < cfg.max_retries
       THEN \* core.py:188-190
            /\ nSleeps' = nSleeps + 1
            /\ lastEv' = Ev("sleep", "retry",
                            SubmitRetryDelay(cfg.base_retry_delay, attempt))
            /\ AfterSleep
            /\ UNCHANGED <<rate_limit_retries, rate_delays>>
       ELSE \* core.py:191-192
            /\ pc' = "raised"
            /\ exc' = Exc("ProbeNetworkError", NoneVal, 0, -1)
            /\ lastEv' = Ev("create", "retry", 0)
            /\ UNCHANGED <<attempt, rate_limit_retries, rate_delays, nSleeps>>
    /\ UNCHANGED <<fixed, interaction_id, pollOnly>>

\* ------------------------------------------------------------------- poll
\* elapsed > self.config.total_timeout  (core.py:213)
TimedOutLate(elapsed, total_timeout) == elapsed > total_timeout + 1
TimedOutNever(elapsed, total_timeout) == FALSE
TimedOut(elapsed, total_timeout) == elapsed > total_timeout

\* consecutive_errors > self.config.max_retries  (core.py:250)
RetriesExhaustedInclusive(n, max_retries) == n >= max_retries
RetriesExhausted(n, max_retries) == n > max_retries

\* the loop head finds the total timeout exceeded (core.py:212-218)
PollTimeout ==
    /\ pc = "poll"
    /\ TimedOut(clock, cfg.total_timeout)
    /\ pc' = "raised"
    /\ exc' = Exc("ProbeTimeoutError", interaction_id, 0, clock)
    /\ UNCHANGED <<fixed, interaction_id, submitOnly, pollOnly, nSleeps, lastEv,
                   failures>>

\* status == "completed"  (core.py:228)
IsCompletedOrCancelled(interaction) ==
    interaction.has_status /\ interaction.status \in {StCompleted, StCancelled}
IsCompleted(interaction) == interaction.has_status /\ interaction.status = StCompleted
\* status == "failed"  (core.py:230)
IsFailed(interaction) == interaction.has_status /\ interaction.status = StFailed

\* except (ProbeAPIError, ProbeTimeoutError): raise  (core.py:243-245): the
\* exception kinds raised by the loop body that leave the loop as they are
PropagatesNone(kind) == FALSE
Propagates(kind) == kind \in {"ProbeAPIError", "ProbeTimeoutError"}

\* except Exception (core.py:246-258), reached lat seconds into the iteration
\* with the counter at n: count the failure, then raise or sleep and continue
Transient(n, lat) ==
    /\ consecutive_errors' = n + 1
    /\ IF RetriesExhausted(n + 1, cfg.max_retries)
       THEN /\ pc' = "raised"
            /\ exc' = Exc("ProbeNetworkError", interaction_id, 0, -1)
            /\ clock' = clock + lat
            /\ lastEv' = Ev("get", "error", 0)
            /\ UNCHANGED nSleeps
       ELSE /\ pc' = "poll"
            /\ nSleeps' = nSleeps + 1
            /\ clock' = clock + lat + PollRetryDelay(cfg.base_retry_delay, n + 1)
            /\ lastEv' = Ev("sleep", "poll_retry",
                            PollRetryDelay(cfg.base_retry_delay, n + 1))
            /\ UNCHANGED exc

\* interactions.get returns resp after lat seconds (core.py:221-245, 261);
\* on "completed" the caller builds the result (core.py:116, 376)
PollGetOk(resp, lat) ==
    /\ pc = "poll"
    /\ ~TimedOut(clock, cfg.total_timeout)
    /\ gets' = gets + 1
    /\ lastGetId' = interaction_id
    /\ last_activity' = ResetKeepalive(Now(creates, gets', sgets))
    /\ lastStatus' = resp.status
    /\ IF IsCompleted(resp)
       THEN /\ pc' = "done"
            /\ consecutive_errors' = 0
            /\ final_interaction' = resp
            /\ result' = BuildResult(resp, interaction_id)
            /\ clock' = clock + lat
            /\ lastEv' = Ev("get", "completed", 0)
            /\ UNCHANGED <<exc, delivered, nonTerminal, nSleeps, pollSleeps>>
       ELSE IF IsFailed(resp)
       THEN \* raise ProbeAPIError inside the try block (core.py:230-235)
            /\ IF Propagates("ProbeAPIError")
               THEN /\ pc' = "raised"
                    /\ consecutive_errors' = 0
                    /\ exc' = Exc("ProbeAPIError", interaction_id, 0, -1)
                    /\ clock' = clock + lat
                    /\ lastEv' = Ev("get", "failed", 0)
                    /\ UNCHANGED nSleeps
               ELSE Transient(0, lat)
            /\ UNCHANGED <<final_interaction, result, delivered, nonTerminal,
                           pollSleeps>>
       ELSE /\ consecutive_errors' = 0
            /\ delivered' = IF on_thought /\ resp.has_outputs
                            THEN Deliver(resp.outputs, delivered) ELSE delivered
            /\ nonTerminal' = nonTerminal + 1
            /\ nSleeps' = nSleeps + 1
            /\ pollSleeps' = pollSleeps + 1
            /\ clock' = clock + lat + cfg.poll_interval
            /\ lastEv' = Ev("sleep", "poll", cfg.poll_interval)
            /\ pc' = "poll"
            /\ UNCHANGED <<exc, final_interaction, result>>
    /\ UNCHANGED <<fixed, interaction_id, submitOnly, failures, createdBare>>

\* interactions.get raises e after lat seconds (core.py:221, 246-258)
PollGetFail(e, lat) ==
    /\ pc = "poll"
    /\ ~TimedOut(clock, cfg.total_timeout)
    /\ gets' = gets + 1
    /\ lastGetId' = interaction_id
    /\ failures' = failures + 1
    /\ last_error' = e
    /\ Transient(consecutive_errors, lat)
    /\ UNCHANGED <<fixed, interaction_id, attempt, rate_limit_retries, creates,
                   rate_delays, rateFails, ordFails, pollSleeps, delivered,
                   lastStatus, nonTerminal, final_interaction, result,
                   createdBare, last_activity>>

\* ----------------------------------------------------------- research_stream
\* the characters of an identifier, for str() of an exception that carries it
IdChars(id) == IF id = "s1" THEN <<"s","1">> ELSE <<>>

\* DeepProbeError.__str__ (exceptions.py:12-15); str() of any other exception
\* is its text
StrOf(err, id) ==
    IF err.cls = "ProbeAPIError" /\ Truthy(id)
    THEN err.msg \o <<" ","(","i","n","t","e","r","a","c","t","i","o","n","_","i","d",":"," ">> \o IdChars(id) \o <<")">>
    ELSE err.msg

\* "connection" in msg or "closed" in msg or "chunked" in msg (core.py:467, 503)
ConnectionLike(msg) ==
    \/ Contains(<<"c","o","n","n","e","c","t","i","o","n">>, msg)
    \/ Contains(<<"c","l","o","s","e","d">>, msg)
    \/ Contains(<<"c","h","u","n","k","e","d">>, msg)

\* "connection" in msg or "closed" in msg (core.py:555)
ReconnectConnectionLike(msg) ==
    \/ Contains(<<"c","o","n","n","e","c","t","i","o","n">>, msg)
    \/ Contains(<<"c","l","o","s","e","d">>, msg)

IsOsError(err) == err.cls = "OSError"

\* process_stream's except clause returns instead of raising (core.py:464-470)
Swallowed(err) == IsOsError(err) /\ ConnectionLike(Lower(err.msg))

\* the exceptions the handlers of research_stream can see, the identifiers
\* they can carry, and the tests above tabulated over them
ThrownErrors == StreamErrors \cup {ApiError(ev.error) : ev \in {e \in Events : e.has_error}}
StreamIds == {Absent} \cup {ev.iid : ev \in Events}
SwallowedErrors == {err \in StreamErrors : Swallowed(err)}
InitialConnectionLike ==
    [err \in ThrownErrors, id \in StreamIds |->
        ConnectionLike(Lower(StrOf(err, id)))]
LoopConnectionLike ==
    [err \in ThrownErrors, id \in StreamIds |->
        ReconnectConnectionLike(Lower(StrOf(err, id)))]

\* the identifier an exception carries: None while none was captured
IdOrNoneDropsId(id) == NoneVal
IdOrNone(id) == IF id = Absent THEN NoneVal ELSE id

\* if hasattr(chunk, "event_id"): last_event_id = chunk.event_id (core.py:426-427)
TrackEventIdOrNone(last, ev) == IF ev.event_id # Absent THEN ev.event_id ELSE NoneVal
TrackEventId(last, ev) == IF ev.event_id # Absent THEN ev.event_id ELSE last

\* "".join(report_parts) (core.py:566)
RECURSIVE JoinReversed(_)
JoinReversed(parts) ==
    IF parts = <<>> THEN "" ELSE JoinReversed(Tail(parts)) \o Head(parts)
JoinLastOnly(parts) == IF parts = <<>> THEN "" ELSE parts[Len(parts)]
RECURSIVE Join(_)
Join(parts) == IF parts = <<>> THEN "" ELSE Head(parts) \o Join(Tail(parts))

\* the result research_stream builds itself (core.py:565-572)
StreamResultCountingParts(parts, ths, id) ==
    [report |-> Join(parts), sources |-> <<>>, thoughts |-> ths,
     cost_usage |-> TokenUsage(0, Len(parts), Len(parts)),
     interaction_id |-> IF Truthy(id) THEN id ELSE "unknown",
     status |-> "COMPLETED"]
StreamResult(parts, ths, id) ==
    [report |-> Join(parts), sources |-> <<>>, thoughts |-> ths,
     cost_usage |-> TokenUsage(0, 0, 0),
     interaction_id |-> IF Truthy(id) THEN id ELSE "unknown",
     status |-> "COMPLETED"]

\* base_retry_delay * (2 ** attempt) (core.py:499, 511)
StreamRetryDelay(base, k) == base * (2 ^ k)

\* max_reconnect_attempts (core.py:515)
MaxReconnectAttemptsAtLeastOne(max_retries) == max_retries * ReconnectFactor + 1
MaxReconnectAttempts(max_retries) == max_retries * ReconnectFactor

\* wait_time = min(base_retry_delay * (2 ** min(retry_count, 3)), 30), slept
\* only when retry_count > 0 (core.py:533-536); 0 stands for no sleep
ReconnectWaitNoCeiling(base, n) ==
    IF n > 0 THEN base * (2 ^ Min(n, ReconnectExpCap)) ELSE 0
ReconnectWait(base, n) ==
    IF n > 0 THEN Min(base * (2 ^ Min(n, ReconnectExpCap)), ReconnectCeiling) ELSE 0

\* the counter after a streaming get that returned (core.py:545)
AfterSuccess(n) == 0

\* the test of the while loop (core.py:517) with the counter at rc: go round
\* again, or fall out of the loop and return the result (core.py:565-572)
WhileHead(rc, complete, slept) ==
    /\ retry_count' = rc
    /\ nSleeps' = nSleeps + slept
    /\ UNCHANGED lastEv
    /\ UNCHANGED <<exc, attempt>>
    /\ IF ~complete /\ Truthy(interaction_id')
       THEN /\ pc' = "s_reconnect"
            /\ UNCHANGED result
       ELSE /\ pc' = "done"
            /\ result' = StreamResult(report_parts', thoughts', interaction_id')

\* raise kind(interaction_id=interaction_id)
StreamRaises(kind, rc, slept) ==
    /\ pc' = "raised"
    /\ exc' = Exc(kind, IdOrNone(interaction_id'), 0, -1)
    /\ retry_count' = rc
    /\ nSleeps' = nSleeps + slept
    /\ UNCHANGED lastEv
    /\ UNCHANGED <<result, attempt>>

\* the except clauses of the initial loop (core.py:488-511)
InitialHandler(err, complete) ==
    IF err.cls = "ProbeAPIError"
    THEN StreamRaises("ProbeAPIError", retry_count, 0)
    ELSE IF /\ Truthy(interaction_id')
            /\ \/ IsOsError(err)
               \/ InitialConnectionLike[err, interaction_id']
    THEN WhileHead(0, complete, 0)
    ELSE IF attempt >= cfg.max_retries
    THEN StreamRaises("ProbeNetworkError", retry_count, 0)
    ELSE /\ pc' = "s_create"
         /\ attempt' = attempt + 1
         /\ nSleeps' = nSleeps + 1
         /\ lastEv' = Ev("sleep", "stream_retry",
                         StreamRetryDelay(cfg.base_retry_delay, attempt))
         /\ UNCHANGED <<exc, result, retry_count>>

\* process_stream returned in the initial loop (core.py:483-487): break, or the
\* next attempt without a sleep, or the end of range(max_retries + 1)
AfterInitial(complete) ==
    IF (~complete /\ Truthy(interaction_id')) \/ complete
    THEN WhileHead(0, complete, 0)
    ELSE IF attempt < cfg.max_retries
    THEN /\ pc' = "s_create"
         /\ attempt' = attempt + 1
         /\ UNCHANGED lastEv
         /\ UNCHANGED <<exc, result, retry_count, nSleeps>>
    ELSE WhileHead(0, complete, 0)

\* the except clauses of the reconnection loop (core.py:548-562)
ReconnectHandler(err, complete, slept) ==
    LET rc == retry_count + 1 IN
    IF IsOsError(err) THEN WhileHead(rc, complete, slept)
    ELSE IF LoopConnectionLike[err, interaction_id']
    THEN WhileHead(rc, complete, slept)
    ELSE IF rc >= MaxReconnectAttempts(cfg.max_retries)
    THEN StreamRaises("ProbeNetworkError", rc, slept)
    ELSE WhileHead(rc, complete, slept)

\* process_stream returned in the reconnection loop (core.py:545-547)
AfterResumed(complete) == WhileHead(AfterSuccess(retry_count), complete, 0)

streamData == <<interaction_id, is_complete, last_event_id, report_parts,
                thoughts, events, lastChunk, errorEvents, textsReceived,
                text_calls, thought_calls>>
notStream == <<rate_limit_retries, last_error, consecutive_errors, clock,
               pollSleeps, rate_delays, delivered, lastStatus, nonTerminal,
               rateFails, ordFails, createdBare, last_activity>>

\* interactions.create(stream=True) returns a stream (core.py:475-482)
StreamCreateOk ==
    /\ pc = "s_create"
    /\ creates' = creates + 1
    /\ pc' = "s_initial"
    /\ streamOutcome' = "open"
    /\ UNCHANGED <<entry, notStream, lastGetId, streamData, attempt, retry_count, result,
                   exc, gets, sgets, nSleeps, lastEv, failures,
                   final_interaction, lastResume, lastWait>>

\* interactions.create(stream=True) raises err (core.py:475, 488-511)
StreamCreateFail(err) ==
    /\ pc = "s_create"
    /\ creates' = creates + 1
    /\ streamOutcome' = "raised"
    /\ UNCHANGED <<entry, notStream, lastGetId, streamData, gets, sgets, failures,
                   final_interaction, lastResume, lastWait>>
    /\ InitialHandler(err, is_complete)

\* one iteration of the for loop of process_stream (core.py:424-463)
StreamChunk(ev) ==
    /\ pc \in {"s_initial", "s_resumed"}
    /\ events < MaxEvents
    /\ events' = events + 1
    /\ lastChunk' = ev
    /\ last_event_id' = TrackEventId(last_event_id, ev)
    /\ interaction_id' = IF ev.event_type = "interaction.start" /\ ev.iid # Absent
                         THEN ev.iid ELSE interaction_id
    /\ LET isText == ev.event_type = "content.delta" /\ ev.delta_type = "text"
           isThought == /\ ev.event_type = "content.delta"
                        /\ ev.delta_type = "thought_summary"
       IN /\ report_parts' = IF isText THEN Append(report_parts, ev.text)
                             ELSE report_parts
          /\ textsReceived' = IF isText THEN Append(textsReceived, ev.text)
                              ELSE textsReceived
          /\ text_calls' = IF isText /\ on_text THEN Append(text_calls, ev.text)
                           ELSE text_calls
          /\ thoughts' = IF isThought
                         THEN Append(thoughts, [content |-> ev.text,
                                                phase |-> "thinking"])
                         ELSE thoughts
          /\ thought_calls' = IF isThought /\ on_thought
                              THEN Append(thought_calls, ev.text)
                              ELSE thought_calls
    /\ is_complete' = (is_complete \/ ev.event_type \in {"interaction.complete",
                                                         "error"})
    /\ errorEvents' = errorEvents + (IF ev.event_type = "error" THEN 1 ELSE 0)
    /\ IF ev.event_type = "error" /\ ev.has_error
       THEN \* raise ProbeAPIError out of process_stream (core.py:459-463)
            /\ streamOutcome' = "raised"
            /\ IF pc = "s_initial"
               THEN InitialHandler(ApiError(ev.error), TRUE)
               ELSE ReconnectHandler(ApiError(ev.error), TRUE, 0)
       ELSE UNCHANGED <<pc, exc, result, retry_count, attempt, nSleeps, lastEv,
                        streamOutcome>>
    /\ UNCHANGED <<entry, notStream, lastGetId, creates, gets, sgets, failures,
                   final_interaction, lastResume, lastWait>>

\* the stream ends: the for loop of process_stream runs out (core.py:424)
StreamEnd ==
    /\ pc \in {"s_initial", "s_resumed"}
    /\ streamOutcome' = "returned"
    /\ UNCHANGED <<entry, notStream, lastGetId, streamData, creates, gets, sgets, failures,
                   final_interaction, lastResume, lastWait>>
    /\ IF pc = "s_initial"
       THEN AfterInitial(is_complete)
       ELSE AfterResumed(is_complete)

\* iterating the stream raises err (core.py:424, 464-470)
StreamRaise(err) ==
    /\ pc \in {"s_initial", "s_resumed"}
    /\ UNCHANGED <<entry, notStream, lastGetId, streamData, creates, gets, sgets, failures,
                   final_interaction, lastResume, lastWait>>
    /\ IF err \in SwallowedErrors
       THEN /\ streamOutcome' = "swallowed"
            /\ IF pc = "s_initial"
               THEN AfterInitial(is_complete)
               ELSE AfterResumed(is_complete)
       ELSE /\ streamOutcome' = "raised"
            /\ IF pc = "s_initial"
               THEN InitialHandler(err, is_complete)
               ELSE ReconnectHandler(err, is_complete, 0)

\* hasattr(final_interaction, "status") and status == "completed" (core.py:522)
FallbackCompleted(interaction) ==
    interaction.has_status /\ interaction.status = StCompleted

\* one more round of the reconnection loop is allowed (core.py:518)
MayReconnectInclusive == retry_count <= MaxReconnectAttempts(cfg.max_retries)
MayReconnect == retry_count < MaxReconnectAttempts(cfg.max_retries)

\* the backoff sleep and interactions.get(stream=True) returning a stream
\* (core.py:533-544)
StreamGetOk ==
    /\ pc = "s_reconnect"
    /\ lastGetId' = interaction_id
    /\ MayReconnect
    /\ sgets < MaxStreamGets
    /\ sgets' = sgets + 1
    /\ lastResume' = last_event_id
    /\ lastWait' = ReconnectWait(cfg.base_retry_delay, retry_count)
    /\ nSleeps' = nSleeps + (IF retry_count > 0 THEN 1 ELSE 0)
    /\ pc' = "s_resumed"
    /\ streamOutcome' = "open"
    /\ UNCHANGED <<entry, notStream, streamData, attempt, retry_count, result,
                   exc, creates, gets, lastEv, failures, final_interaction>>

\* the backoff sleep and interactions.get(stream=True) raising err
\* (core.py:533-543, 548-562)
StreamGetFail(err) ==
    /\ pc = "s_reconnect"
    /\ lastGetId' = interaction_id
    /\ MayReconnect
    /\ sgets < MaxStreamGets
    /\ sgets' = sgets + 1
    /\ lastResume' = last_event_id
    /\ lastWait' = ReconnectWait(cfg.base_retry_delay, retry_count)
    /\ streamOutcome' = "raised"
    /\ UNCHANGED <<entry, notStream, streamData, creates, gets, failures,
                   final_interaction>>
    /\ ReconnectHandler(err, is_complete, IF retry_count > 0 THEN 1 ELSE 0)

\* the fallback interactions.get(id) returns resp (core.py:518-531)
FallbackGetOk(resp) ==
    /\ pc = "s_reconnect"
    /\ lastGetId' = interaction_id
    /\ ~MayReconnect
    /\ gets' = gets + 1
    /\ streamOutcome' = "fallback_ok"
    /\ IF FallbackCompleted(resp)
       THEN /\ pc' = "done"
            /\ final_interaction' = resp
            /\ result' = BuildResult(resp, interaction_id)
            /\ UNCHANGED exc
       ELSE /\ pc' = "raised"
            /\ exc' = Exc("ProbeNetworkError", IdOrNone(interaction_id), 0, -1)
            /\ UNCHANGED <<final_interaction, result>>
    /\ UNCHANGED <<entry, notStream, streamData, attempt, retry_count, creates,
                   sgets, nSleeps, lastEv, failures, lastResume, lastWait>>

\* the fallback interactions.get(id) raises (core.py:521, 525-531)
FallbackGetFail(err) ==
    /\ pc = "s_reconnect"
    /\ lastGetId' = interaction_id
    /\ ~MayReconnect
    /\ gets' = gets + 1
    /\ streamOutcome' = "fallback_failed"
    /\ pc' = "raised"
    /\ exc' = Exc("ProbeNetworkError", IdOrNone(interaction_id), 0, -1)
    /\ UNCHANGED <<entry, notStream, streamData, attempt, retry_count, creates,
                   sgets, nSleeps, failures, lastEv, final_interaction, result,
                   lastResume, lastWait>>

Next ==
    \/ \E resp \in CreateResponses : CreateOk(resp)
    \/ \E e \in CreateErrors : CreateFail(e)
    \/ PollTimeout
    \/ \E resp \in GetResponses, lat \in 0..MaxLatency : PollGetOk(resp, lat)
    \/ \E e \in GetErrors, lat \in 0..MaxLatency : PollGetFail(e, lat)
    \/ StreamCreateOk
    \/ \E err \in StreamErrors : StreamCreateFail(err)
    \/ \E ev \in Events : StreamChunk(ev)
    \/ StreamEnd
    \/ \E err \in StreamErrors : StreamRaise(err)
    \/ StreamGetOk
    \/ \E err \in StreamErrors : StreamGetFail(err)
    \/ \E resp \in FallbackResponses : FallbackGetOk(resp)
    \/ \E err \in StreamErrors : FallbackGetFail(err)

Spec == Init /\ [][Next]_vars

\* -------------------------------- research() with an on_thought that raises
\* str() of the exception the callback raises
MsgCallback == <<"c","a","l","l","b","a","c","k"," ","f","a","i","l","e","d">>

\* interactions.get returns the non-terminal resp after lat seconds and
\* on_thought raises an ordinary exception when called for output j
\* (core.py:221-241, 246-258): the calls for the outputs before j were made,
\* the counter was reset at core.py:223, and the exception lands in the
\* except Exception clause of the loop body
PollCallbackFail(resp, lat, j) ==
    /\ pc = "poll"
    /\ ~TimedOut(clock, cfg.total_timeout)
    /\ on_thought
    /\ ~IsCompleted(resp)
    /\ ~IsFailed(resp)
    /\ resp.has_outputs
    /\ j \in 1..Len(resp.outputs)
    /\ resp.outputs[j].thought_summary # Absent
    /\ gets' = gets + 1
    /\ lastGetId' = interaction_id
    /\ last_activity' = ResetKeepalive(Now(creates, gets', sgets))
    /\ lastStatus' = resp.status
    /\ delivered' = Deliver(SubSeq(resp.outputs, 1, j), delivered)
    /\ nonTerminal' = nonTerminal + 1
    /\ last_error' = MsgCallback
    /\ Transient(0, lat)
    /\ UNCHANGED <<fixed, interaction_id, attempt, rate_limit_retries, creates,
                   rate_delays, rateFails, ordFails, pollSleeps, failures,
                   final_interaction, result, createdBare>>

CallbackInit ==
    /\ Init
    /\ op = "research"
    /\ on_thought

CallbackNext ==
    \/ \E resp \in CreateResponses : CreateOk(resp)
    \/ PollTimeout
    \/ \E resp \in GetResponses, lat \in 0..MaxLatency : PollGetOk(resp, lat)
    \/ \E e \in GetErrors, lat \in 0..MaxLatency : PollGetFail(e, lat)
    \/ \E resp \in GetResponses, lat \in 0..MaxLatency, j \in 1..MaxOutputs :
          PollCallbackFail(resp, lat, j)

CallbackSpec == CallbackInit /\ [][CallbackNext]_vars

\* ---------------------------------- research() and resume() under fairness
\* the thread running the call keeps running it: every get returns or raises
\* and every sleep ends; the create of research() succeeds at the first try
PollInit ==
    /\ Init
    /\ op \in {"research", "resume"}

\* one get response of each kind the loop tells apart: non-terminal,
\* completed, failed
StatusKinds ==
    { resp \in GetResponses :
        resp.status \in {StPending, StFailed}
          \/ (resp.status = StCompleted /\ resp.response = NoResponse) }

PollNext ==
    \/ \E resp \in CreateResponses : CreateOk(resp)
    \/ PollTimeout
    \/ /\ gets < MaxPollGets
       /\ \E resp \in StatusKinds, lat \in 0..MaxLatency : PollGetOk(resp, lat)
    \/ /\ gets < MaxPollGets
       /\ \E e \in GetErrors, lat \in 0..MaxLatency : PollGetFail(e, lat)

PollLiveSpec == PollInit /\ [][PollNext]_vars /\ WF_vars(PollNext)

\* ------------------------------------- the two pure functions, run alone
\* ResearchResult(report=...) rejects a report that is not a string
\* (models.py:55)
ReportValidates(report) == report # NoneVal

\* the text attribute of one output item
OutputTexts == {Absent, NoneVal, "", "A", "B"}

RECURSIVE OutputLists(_)
OutputLists(n) ==
    IF n = 0 THEN {<<>>}
    ELSE OutputLists(n - 1) \cup
         { Append(l, Out(t, Absent)) :
             l \in {m \in OutputLists(n - 1) : Len(m) = n - 1}, t \in OutputTexts }

\* the top-level response field
ResponseShapes ==
    { NoResponse, RespObject("X", Absent), RespObject("T", "X"),
      RespObject("", "X"), RespObject(Absent, "X"), RespObject(NoneVal, "X"),
      RespObject(Absent, Absent), RespObject(Absent, ""), RespString("S"),
      RespString("") }

\* remote status strings in several spellings, and one outside the table
StatusSpellings ==
    { StCompleted, StFailed, StCancelled, StInProgress, StRunning, StPending,
      <<"C","O","M","P","L","E","T","E","D">>,
      <<"F","a","i","l","e","d">>,
      <<"I","N","_","P","R","O","G","R","E","S","S">>,
      <<"P","e","n","d","i","n","g">>,
      <<"p","a","u","s","e","d">> }

\* the interactions _build_result is applied to, with up to n output items
NormalizeInputs(n) ==
    { [Interaction(st, ho, outs, r) EXCEPT !.has_status = hs] :
        st \in StatusSpellings, hs \in BOOLEAN, ho \in BOOLEAN,
        outs \in OutputLists(n), r \in ResponseShapes }

NormalizeInit ==
    /\ op \in {"extract", "normalize"}
    /\ cfg \in {c \in Configs : c.max_retries = 0 /\ c.base_retry_delay = 1}
    /\ on_thought = FALSE
    /\ on_text = FALSE
    /\ pc = op
    /\ interaction_id = (IF op = "normalize" THEN "op1" ELSE Absent)
    /\ caller_id = interaction_id
    /\ created \in (IF op = "extract" THEN CreateShapes ELSE {NoCreated})
    /\ final_interaction \in (IF op = "normalize" THEN NormalizeInputs(MaxOutputs)
                              ELSE {NoInteraction})
    /\ NoThreads
    /\ Fresh

\* _extract_interaction_id(response) (core.py:263-273)
ExtractStep ==
    /\ pc = "extract"
    /\ IF ExtractId(created) = Absent
       THEN /\ pc' = "raised"
            /\ exc' = Exc("ProbeNetworkError", NoneVal, 0, -1)
            /\ UNCHANGED interaction_id
       ELSE /\ pc' = "done"
            /\ interaction_id' = ExtractId(created)
            /\ UNCHANGED exc
    /\ UNCHANGED <<fixed, pollOnly, submitOnly, nSleeps, lastEv, failures>>

\* _build_result(interaction, interaction_id) (core.py:275-355)
NormalizeStep ==
    /\ pc = "normalize"
    /\ LET built == BuildResult(final_interaction, interaction_id) IN
       IF ReportValidates(built.report)
       THEN /\ pc' = "done"
            /\ result' = built
            /\ UNCHANGED exc
       ELSE /\ pc' = "raised"
            /\ exc' = Exc("ValidationError", NoneVal, 0, -1)
            /\ UNCHANGED result
    /\ UNCHANGED <<fixed, submitOnly, interaction_id, nSleeps, lastEv, failures,
                   consecutive_errors, clock, gets, pollSleeps, delivered,
                   lastStatus, nonTerminal, final_interaction, lastGetId,
                   createdBare, last_activity>>

NormalizeNext ==
    \/ ExtractStep
    \/ NormalizeStep

NormalizeSpec == NormalizeInit /\ [][NormalizeNext]_vars

\* ------------------- research_async: several operations on one instance
\* run_multiple_researches gathers research_async calls made on one DeepProbe
\* (async_usage.py:64-78); each runs research() in its own executor thread
\* (core.py:135-138)
Ops == 1..NumOps

\* everything the concurrent operations leave alone
sequential == <<op, cfg, on_thought, on_text, caller_id, created, streamOnly,
                attempt, rate_limit_retries, last_error, rate_delays, rateFails,
                ordFails, pc, interaction_id, exc, nSleeps, lastEv, failures,
                consecutive_errors, clock, pollSleeps, delivered, lastStatus,
                nonTerminal, final_interaction, result, lastGetId, createdBare>>

Reads(a, w) == [accessed EXCEPT ![a].readers = @ \cup {w}]
Writes(a, w) == [accessed EXCEPT ![a].writers = @ \cup {w}]

ConcurrentInit ==
    /\ op = "research_async"
    /\ cfg \in {c \in Configs : c.max_retries = 0 /\ c.base_retry_delay = 1}
    /\ on_thought = FALSE
    /\ on_text = FALSE
    /\ pc = "gather"
    /\ interaction_id = Absent
    /\ caller_id = Absent
    /\ created = NoCreated
    /\ final_interaction = NoInteraction
    /\ client = 0
    /\ threads = [w \in Ops |-> [pc |-> "check", saw_none |-> FALSE, client |-> 0,
                                 polls |-> 0, status |-> Absent]]
    /\ accessed = [a \in SharedAttributes |-> [readers |-> {}, writers |-> {}]]
    /\ Fresh

\* _get_client: if self._client is None (core.py:74)
ClientCheck(w) ==
    /\ threads[w].pc = "check"
    /\ threads' = [threads EXCEPT ![w].saw_none = (client = 0),
                                  ![w].pc = IF client = 0 THEN "construct" ELSE "return"]
    /\ accessed' = Reads("_client", w)
    /\ UNCHANGED <<sequential, client, creates, gets, last_activity>>

\* _get_client: self._client = genai.Client(...) (core.py:77)
ClientConstruct(w) ==
    /\ threads[w].pc = "construct"
    /\ client' = w
    /\ threads' = [threads EXCEPT ![w].pc = "return"]
    /\ accessed' = Writes("_client", w)
    /\ UNCHANGED <<sequential, creates, gets, last_activity>>

\* _get_client: return self._client (core.py:78)
ClientReturn(w) ==
    /\ threads[w].pc = "return"
    /\ threads' = [threads EXCEPT ![w].client = client, ![w].pc = "create"]
    /\ accessed' = Reads("_client", w)
    /\ UNCHANGED <<sequential, client, creates, gets, last_activity>>

\* interactions.create succeeds, then reset_keepalive() (core.py:147-155)
ThreadCreate(w) ==
    /\ threads[w].pc = "create"
    /\ creates' = creates + 1
    /\ last_activity' = ResetKeepalive(Now(creates', gets, sgets))
    /\ threads' = [threads EXCEPT ![w].pc = "poll"]
    /\ accessed' = Writes("_last_activity", w)
    /\ UNCHANGED <<sequential, client, gets>>

\* interactions.get succeeds, then reset_keepalive() and the status test
\* (core.py:219-229)
ThreadGet(w, status) ==
    /\ threads[w].pc = "poll"
    /\ status = StInProgress => threads[w].polls + 1 < MaxPolls
    /\ gets' = gets + 1
    /\ last_activity' = ResetKeepalive(Now(creates, gets', sgets))
    /\ threads' = [threads EXCEPT ![w].polls = @ + 1,
                                  ![w].status = StatusMap(Interaction(status, FALSE, <<>>, NoResponse)),
                                  ![w].pc = IF status = StCompleted THEN "done" ELSE "poll"]
    /\ accessed' = Writes("_last_activity", w)
    /\ UNCHANGED <<sequential, client, creates>>

ConcurrentNext ==
    \/ \E w \in Ops : ClientCheck(w)
    \/ \E w \in Ops : ClientConstruct(w)
    \/ \E w \in Ops : ClientReturn(w)
    \/ \E w \in Ops : ThreadCreate(w)
    \/ \E w \in Ops, status \in {StInProgress, StCompleted} : ThreadGet(w, status)

ConcurrentSpec == ConcurrentInit /\ [][ConcurrentNext]_vars


\* ================================================================= claims
\* texts as the claims classify them
AuthText(e) == \E n \in AuthNeedles : Contains(n, Lower(e))
RateText(e) == \E n \in RateNeedles : Contains(n, Lower(e))

\* the submission is still the only thing that has happened
InSubmit == op = "research" /\ creates > 0 /\ gets = 0 /\ pc # "poll"

\* C1: in research(), a create attempt that fails with an error whose
\* lower-cased text contains 'auth', 'api key', 'unauthorized' or '401' ends the
\* call with ProbeAuthError at once: the failed create is the last event (no
\* sleep after it, no further create or get), whatever the attempt index and
\* whatever earlier attempts did.
AuthErrorRaisedImmediately ==
    (op = "research" /\ gets = 0 /\ failures > 0 /\ AuthText(last_error))
        => /\ pc = "raised"
           /\ exc.kind = "ProbeAuthError"
           /\ lastEv.kind = "create"
           /\ creates = failures
           /\ nSleeps = failures - 1

\* C1 witness: the auth failure comes after a rate-limit retry and an ordinary
\* retry, on a later attempt
AuthErrorAfterRetries ==
    /\ exc.kind = "ProbeAuthError"
    /\ AuthText(last_error)
    /\ rateFails >= 1
    /\ ordFails >= 1
    /\ attempt >= 2

\* C2: in research(), when every create attempt fails with a rate-limit
\* error, the call ends only after 5 rate-limit retries, by raising
\* ProbeAPIError with status_code 429, for every max_retries; stated here at
\* the default max_retries = 3, which the claim names.
RateLimitExhaustionRaises429 ==
    (InSubmit /\ pc = "raised" /\ rateFails = creates /\ cfg.max_retries = 3)
        => /\ exc.kind = "ProbeAPIError"
           /\ exc.status_code = 429
           /\ rate_limit_retries = 5

PollTimeoutStep ==
    [][ pc = "poll" =>
          /\ clock' >= clock
          /\ (nSleeps' = nSleeps + 1) => clock' >= clock + lastEv'.secs
          /\ clock > cfg.total_timeout
               => /\ gets' = gets
                  /\ nSleeps' = nSleeps
                  /\ pc' = "raised"
                  /\ exc'.kind = "ProbeTimeoutError"
                  /\ exc'.interaction_id = interaction_id
                  /\ exc'.elapsed_seconds = clock
                  /\ exc'.elapsed_seconds >= cfg.total_timeout
          /\ exc'.kind = "ProbeTimeoutError" => clock > cfg.total_timeout ]_vars

\* C6 witness: the timeout is raised one second past total_timeout, after
\* successful gets and a failed one
TimeoutJustPast ==
    /\ exc.kind = "ProbeTimeoutError"
    /\ exc.elapsed_seconds = cfg.total_timeout + 1
    /\ exc.interaction_id = "op1"
    /\ nonTerminal >= 1
    /\ failures >= 1

\* C7: a get response with status 'failed' raises ProbeAPIError carrying the
\* identifier: it is not counted as a transient failure, no sleep and no get
\* follows it, and it is not turned into a ProbeNetworkError.
FailedStatusRaisesApiError ==
    (lastStatus = StFailed)
        => /\ pc = "raised"
           /\ exc.kind = "ProbeAPIError"
           /\ exc.interaction_id = interaction_id
           /\ lastEv = Ev("get", "failed", 0)
           /\ consecutive_errors = 0

\* C7 witness: 'failed' arrives after a transient failure was retried
FailedAfterRetry ==
    /\ lastStatus = StFailed
    /\ exc.kind = "ProbeAPIError"
    /\ exc.interaction_id = "op1"
    /\ failures >= 1
    /\ gets >= 2

\* a remote status that maps to Completed, Failed or Cancelled
TerminalStatus(st) == Lower(st) \in {StCompleted, StFailed, StCancelled}

\* C8: the poll loop ends as soon as a get response reports a status that maps
\* to Completed, Failed or Cancelled: no poll_interval sleep and no further get
\* follows such a response.
PollEndsOnTerminalStatus ==
    (gets > 0 /\ lastStatus # <<>> /\ TerminalStatus(lastStatus) /\ consecutive_errors = 0)
        => /\ pc \in {"done", "raised"}
           /\ lastEv.kind = "get"

\* C9: with on_thought registered, a thought summary already delivered from an
\* earlier response is not delivered again: each is passed to the callback at
\* most once.
ThoughtDeliveredOnce ==
    \A t \in ThoughtValues : delivered[t] <= 1

\* the text of the last output item with non-empty text, if there is one
LastTextIs(outputs, text) ==
    \E i \in 1..Len(outputs) :
        /\ Truthy(outputs[i].text)
        /\ outputs[i].text = text
        /\ \A j \in (i + 1)..Len(outputs) : ~Truthy(outputs[j].text)

\* C10: research() against a remote whose create succeeds and whose get
\* returns k non-terminal responses and then 'completed', with no failure,
\* issues exactly one create and k + 1 gets, sleeps exactly k times, each
\* poll_interval, and returns status Completed with the final response's report.
CleanRunCounts ==
    (op = "research" /\ pc = "done" /\ failures = 0)
        => /\ creates = 1
           /\ gets = nonTerminal + 1
           /\ pollSleeps = nonTerminal
           /\ nSleeps = nonTerminal
           /\ clock >= nonTerminal * cfg.poll_interval
           /\ result.status = "COMPLETED"
           /\ result.interaction_id = interaction_id
           /\ (\E i \in 1..Len(final_interaction.outputs) :
                   Truthy(final_interaction.outputs[i].text))
                => LastTextIs(final_interaction.outputs, result.report)
           /\ final_interaction.outputs = <<>>
                => result.report = final_interaction.response.text

\* C10 witness: pending, pending, completed
TwoPollsThenCompleted ==
    /\ op = "research"
    /\ pc = "done"
    /\ failures = 0
    /\ nonTerminal = 2
    /\ pollSleeps = 2
    /\ gets = 3
    /\ result.report = "Report body"

\* C11: resume(id) never issues a create call: every get it issues, the first
\* included, is get(id) with the caller-supplied id; when the first get
\* answers 'completed' the call has slept zero times; and the returned
\* result's interaction_id is the caller-supplied id.
ResumeOnlyPollsCallerId ==
    op = "resume"
        => /\ creates = 0
           /\ interaction_id = caller_id
           /\ gets > 0 => lastGetId = caller_id
           /\ (pc = "done" /\ gets = 1) => nSleeps = 0
           /\ pc = "done" => result.interaction_id = caller_id

\* C11 witness: resume("op1") against a remote that answers 'completed' at once
ResumeCompletedAtOnce ==
    /\ op = "resume"
    /\ caller_id = "op1"
    /\ pc = "done"
    /\ gets = 1
    /\ lastGetId = "op1"
    /\ nSleeps = 0
    /\ result.interaction_id = "op1"

\* C12: every result returned by research(), resume() or research_stream()
\* has a non-empty interaction_id, whatever the remote does and whatever
\* identifier the caller supplies.
ReturnedIdNonEmpty ==
    pc = "done" => result.interaction_id \notin {"", Absent, NoneVal}

\* C13: in research_stream(), once an 'error' event has been received on any
\* stream (the create stream or a reconnected get stream), the call ends by
\* raising ProbeAPIError carrying the captured identifier: it is not still
\* running, it raises nothing else and it returns no result.
ErrorEventRaisesApiError ==
    (op = "stream" /\ errorEvents > 0)
        => /\ pc = "raised"
           /\ exc.kind = "ProbeAPIError"
           /\ exc.interaction_id = IdOrNone(interaction_id)

\* the texts of a list, written one after the other
RECURSIVE InArrivalOrder(_)
InArrivalOrder(texts) ==
    IF texts = <<>> THEN ""
    ELSE InArrivalOrder(SubSeq(texts, 1, Len(texts) - 1)) \o texts[Len(texts)]

\* research_stream returned its own result after an 'interaction.complete'
CompletedByEvent ==
    /\ op = "stream"
    /\ pc = "done"
    /\ gets = 0
    /\ is_complete
    /\ errorEvents = 0

\* C14: in research_stream(), when the stream completes through an
\* 'interaction.complete' event, the report is the concatenation, in arrival
\* order, of every text delta received on all streams of the call; and on_text
\* has been called exactly once per text delta, in the same order, with that
\* chunk (at every moment of the call, so no merging and no replay).
ReportConcatenatesTextDeltas ==
    /\ CompletedByEvent => result.report = InArrivalOrder(textsReceived)
    /\ (op = "stream" /\ on_text) => text_calls = textsReceived
    /\ (op = "stream" /\ ~on_text) => text_calls = <<>>

\* C14 witness: "Hello " and "World" arrive on two streams of one call, then
\* 'interaction.complete'
HelloWorldOverTwoStreams ==
    /\ CompletedByEvent
    /\ creates = 2
    /\ on_text
    /\ textsReceived = <<"Hello ", "World">>
    /\ text_calls = <<"Hello ", "World">>
    /\ result.report = "Hello World"

\* C15 as stated: every result returned by research_stream() has an empty
\* sources list and all-zero token usage, whichever path produced it.
StreamResultNoSourcesNoUsage ==
    (op = "stream" /\ pc = "done")
        => /\ result.sources = <<>>
           /\ result.cost_usage = TokenUsage(0, 0, 0)

\* C15 amended: a result research_stream() builds itself (normal completion)
\* has empty sources and all-zero usage; a result returned by the fallback get
\* after reconnect exhaustion is the normalization of that response and carries
\* its citations and usage.
StreamResultSourcesByPath ==
    (op = "stream" /\ pc = "done")
        => IF gets = 0
           THEN /\ result.sources = <<>>
                /\ result.cost_usage = TokenUsage(0, 0, 0)
           ELSE /\ Len(result.sources) = Len(final_interaction.citations)
                /\ final_interaction.has_usage =>
                      result.cost_usage.total_tokens =
                          final_interaction.usage_metadata.total_tokens

\* C15 witness: the fallback get answers 'completed' with two citations and
\* 18 tokens, and that is what the caller gets
FallbackResultHasSources ==
    /\ op = "stream"
    /\ pc = "done"
    /\ gets = 1
    /\ Len(result.sources) = 2
    /\ result.cost_usage = TokenUsage(7, 11, 18)
    /\ report_parts # <<>>

\* C16: during one research_stream() call the number of streaming get-by-id
\* calls issued never exceeds max_retries * 2, whatever the remote does.
StreamGetsCapped ==
    op = "stream" => sgets <= cfg.max_retries * 2

\* C17: in research_stream(), whenever the reconnection attempts are exhausted
\* and ProbeNetworkError is raised, exactly one non-streaming get(id) was
\* attempted before it; a 'completed' answer of that get is returned as the
\* result.
FallbackGetBeforeNetworkError ==
    /\ (/\ op = "stream"
        /\ sgets > 0
        /\ pc = "raised"
        /\ exc.kind = "ProbeNetworkError"
        /\ retry_count >= cfg.max_retries * 2)
           => gets = 1 /\ exc.interaction_id = interaction_id
    /\ (op = "stream" /\ gets = 1 /\ FallbackCompleted(final_interaction))
           => pc = "done"

ReconnectWaitWithinMaxRetryDelay ==
    op = "stream" => lastWait <= cfg.max_retry_delay

\* C20: in research_stream(), every streaming get-by-id passes as resume point
\* the tracked last event id (None while no event carried one), and the
\* tracked id changes only when an event carrying an event_id is received, to
\* that event's id: it is always the id of the most recent such event.
ResumePointIsLastEventId ==
    [][ op = "stream" =>
          /\ events' = events + 1
                => last_event_id' = IF lastChunk'.event_id # Absent
                                    THEN lastChunk'.event_id
                                    ELSE last_event_id
          /\ events' = events => last_event_id' = last_event_id
          /\ sgets' = sgets + 1 => lastResume' = last_event_id
      ]_vars

\* C20 witness: 'interaction.start' carries e1, a text delta without event_id
\* follows, the stream ends, and the reconnect resumes from e1
ResumesFromE1 ==
    /\ op = "stream"
    /\ pc = "s_resumed"
    /\ sgets = 1
    /\ events = 2
    /\ lastChunk = EvWorld
    /\ last_event_id = "e1"
    /\ lastResume = "e1"

\* a step of process_stream in which a connection-like OSError was swallowed
SwallowStep == op = "stream" /\ pc \in {"s_initial", "s_resumed"}
               /\ streamOutcome' = "swallowed"

\* the call stands right after a swallowed error, with an identifier and not
\* complete
AfterSwallow == /\ op = "stream"
                /\ streamOutcome = "swallowed"
                /\ Truthy(interaction_id)
                /\ ~is_complete

\* C21 as stated: in research_stream(), a connection-like OSError raised while
\* a stream is iterated is not raised to the caller and loses nothing of the
\* text, thoughts, identifier and last event id; and when an identifier is
\* known and the operation is not complete, the next remote call is a
\* streaming get for that identifier.
SwallowedErrorThenStreamingGet ==
    [][ /\ SwallowStep
           => /\ pc' # "raised"
              /\ UNCHANGED <<report_parts, thoughts, interaction_id,
                             last_event_id, is_complete>>
        /\ AfterSwallow
           => /\ sgets' = sgets + 1
              /\ gets' = gets
              /\ lastGetId' = interaction_id
      ]_vars

\* C21 amended: the same, except that the next remote call is the streaming
\* get only when max_retries > 0; with max_retries = 0 the reconnection budget
\* max_retries * 2 is already used up and the next call is the non-streaming
\* fallback get for that identifier.
SwallowedErrorThenGet ==
    [][ /\ SwallowStep
           => /\ pc' # "raised"
              /\ UNCHANGED <<report_parts, thoughts, interaction_id,
                             last_event_id, is_complete>>
        /\ AfterSwallow
           => /\ pc = "s_reconnect"
              /\ lastGetId' = interaction_id
              /\ IF cfg.max_retries > 0
                 THEN sgets' = sgets + 1 /\ gets' = gets
                 ELSE sgets' = sgets /\ gets' = gets + 1
      ]_vars

\* C21 witness: a reconnected stream that delivered text breaks with a
\* swallowed error and the streaming get that follows is for the same id
StreamingGetAfterSwallow ==
    /\ AfterSwallow
    /\ pc = "s_reconnect"
    /\ sgets = 1
    /\ interaction_id = "s1"
    /\ lastGetId = "s1"
    /\ report_parts # <<>>
    /\ last_event_id # NoneVal

\* C22: an authentication failure is never retried: when a get of the poll
\* loop (research or resume) has raised an error whose text contains 'auth',
\* 'api key', 'unauthorized' or '401', the call has ended with ProbeAuthError.
PollAuthErrorSurfaced ==
    (op \in {"research", "resume"} /\ gets > 0 /\ AuthText(last_error))
        => /\ pc = "raised"
           /\ exc.kind = "ProbeAuthError"

\* C23: every ProbeNetworkError raised by research(), resume() or
\* research_stream() while the client holds an operation identifier carries
\* exactly that identifier.
NetworkErrorCarriesId ==
    (exc.kind = "ProbeNetworkError" /\ interaction_id # Absent)
        => exc.interaction_id = interaction_id

\* C23 witness: research_stream raises from the reconnection handler, without
\* a fallback get, and the error carries s1
StreamNetworkErrorWithId ==
    /\ op = "stream"
    /\ exc.kind = "ProbeNetworkError"
    /\ gets = 0
    /\ sgets > 0
    /\ interaction_id = "s1"
    /\ exc.interaction_id = "s1"

\* C24: in research(), when the create call succeeds and its response exposes
\* none of id, interaction_id, uuid, uid, ProbeNetworkError is raised at once:
\* that create is the last event, so no further create, no sleep and no get.
BareCreateResponseIsFatal ==
    (op = "research" /\ createdBare)
        => /\ pc = "raised"
           /\ exc.kind = "ProbeNetworkError"
           /\ exc.interaction_id = NoneVal
           /\ lastEv = Ev("create", "ok", 0)
           /\ creates = failures + 1
           /\ gets = 0

\* C24 witness: the bare response comes after two failed creates and their
\* sleeps
BareCreateAfterRetries ==
    /\ op = "research"
    /\ createdBare
    /\ pc = "raised"
    /\ creates = 3
    /\ nSleeps = 2
    /\ gets = 0

\* C26: the activity tracker's last-activity time is set to now by every
\* successful remote call (create and get in poll mode, streaming create,
\* streaming get and fallback get in stream mode) and is left alone by every
\* failed call.
ActivityResetOnEverySuccess ==
    [][ (creates' + gets' + sgets' = creates + gets + sgets + 1)
          => LET ok == IF op = "stream"
                       THEN streamOutcome' \in {"open", "fallback_ok"}
                       ELSE failures' = failures
             IN IF ok THEN last_activity' = creates' + gets' + sgets'
                ELSE last_activity' = last_activity
      ]_vars

\* the candidate identifier fields in the order the claim names them
FieldOrder == <<"id", "interaction_id", "uuid", "uid">>
PresentFields(r) == {i \in 1..Len(FieldOrder) : r[FieldOrder[i]] # Absent}
FirstPresent(r) ==
    r[FieldOrder[CHOOSE i \in PresentFields(r) : \A j \in PresentFields(r) : i <= j]]

\* C25: for every subset of id, interaction_id, uuid, uid present on the
\* response, extraction returns the value of the first one present in that
\* order
ExtractionTakesFirstPresentField ==
    (op = "extract" /\ pc # "extract" /\ PresentFields(created) # {})
        => (pc = "done" /\ interaction_id = FirstPresent(created))

\* a response exposing both id and interaction_id has yielded the id value
ExtractedIdOverInteractionId ==
    /\ op = "extract"
    /\ pc = "done"
    /\ created.id = "a"
    /\ created.interaction_id = "b"
    /\ interaction_id = "a"

\* the positions of the output items that carry non-empty text
NonEmptyItems(outputs) ==
    {i \in 1..Len(outputs) : outputs[i].text \notin {Absent, NoneVal, ""}}
LastNonEmptyText(outputs) ==
    outputs[CHOOSE i \in NonEmptyItems(outputs) :
                \A j \in NonEmptyItems(outputs) : j <= i].text

\* C28: the report is the text of the last output item, in list order, whose
\* text is non-empty
ReportIsLastNonEmptyOutput ==
    (/\ op = "normalize"
     /\ pc # "normalize"
     /\ final_interaction.has_outputs
     /\ NonEmptyItems(final_interaction.outputs) # {})
        => (/\ pc = "done"
            /\ result.report = LastNonEmptyText(final_interaction.outputs))

\* outputs with texts '', 'A', '' have been normalized to report 'A'
EmptyItemsAroundReport ==
    /\ op = "normalize"
    /\ pc = "done"
    /\ final_interaction.has_outputs
    /\ final_interaction.outputs = <<Out("", Absent), Out("A", Absent), Out("", Absent)>>
    /\ result.report = "A"

\* the report the fallback chain is said to give: the text of the response,
\* then its content, then the response itself when it is a plain string
NonEmpty(v) == v \notin {Absent, NoneVal, ""}
FallbackByPriority(response) ==
    IF response.kind = "object" /\ NonEmpty(response.text) THEN response.text
    ELSE IF response.kind = "object" /\ NonEmpty(response.content)
         THEN response.content
    ELSE IF response.kind = "string" THEN response.text
    ELSE ""

\* C29: when no output item carries non-empty text the report is the
\* response's text, else its content, else the response itself when it is a
\* plain string, else the empty string, and never an error
FallbackReportByPriority ==
    (/\ op = "normalize"
     /\ pc # "normalize"
     /\ (~final_interaction.has_outputs
            \/ NonEmptyItems(final_interaction.outputs) = {}))
        => (/\ pc = "done"
            /\ result.report = FallbackByPriority(final_interaction.response))

\* the status table of the claim: remote spelling, local status
StatusTable ==
    { <<StCompleted, "COMPLETED">>, <<StFailed, "FAILED">>,
      <<StCancelled, "CANCELLED">>, <<StInProgress, "RUNNING">>,
      <<StRunning, "RUNNING">>, <<StPending, "PENDING">> }
SameIgnoringCase(a, b) ==
    /\ Len(a) = Len(b)
    /\ \A i \in 1..Len(a) : LowerChar(a[i]) = LowerChar(b[i])
TableEntries(interaction) ==
    {e \in StatusTable :
        interaction.has_status /\ SameIgnoringCase(interaction.status, e[1])}

\* C30: the remote status is looked up in the table without regard to case,
\* and an absent status or one outside the table gives Completed
StatusMappedIgnoringCase ==
    (op = "normalize" /\ pc = "done")
        => IF TableEntries(final_interaction) = {}
           THEN result.status = "COMPLETED"
           ELSE \A e \in TableEntries(final_interaction) : result.status = e[2]

\* a status spelled 'Failed' has been normalized to Failed
MixedCaseFailedMapped ==
    /\ op = "normalize"
    /\ pc = "done"
    /\ final_interaction.has_status
    /\ final_interaction.status = <<"F","a","i","l","e","d">>
    /\ result.status = "FAILED"

\* C27: concurrent operations share no mutable state: no attribute is written
\* by one operation and read or written by another
NoSharedMutableState ==
    \A a \in SharedAttributes :
        \A w \in accessed[a].writers :
            accessed[a].readers \cup accessed[a].writers \subseteq {w}

\* C31: with positive poll_interval and base_retry_delay, and every get
\* returning or failing, the poll loop of research()/resume() ends: it returns
\* the completed response or raises ProbeAPIError, ProbeNetworkError or
\* ProbeTimeoutError, however successes and transient failures interleave
PollLoopTerminates ==
    (pc = "poll")
        ~> (\/ pc = "done"
            \/ /\ pc = "raised"
               /\ exc.kind \in {"ProbeAPIError", "ProbeNetworkError",
                                "ProbeTimeoutError"})

\* a resumed poll that saw both a non-terminal response and a failed get has
\* ended on the total timeout
TimedOutAfterMixedPolls ==
    /\ op = "resume"
    /\ pc = "raised"
    /\ exc.kind = "ProbeTimeoutError"
    /\ nonTerminal > 0
    /\ failures > 0

\* C32: in research(), the delays slept for successive rate-limit retries are
\* 60, 120, 240, 300 and 300 seconds
RateLimitDelaysReachCeiling ==
    op = "research"
        => \A i \in 1..Len(rate_delays) : rate_delays[i] = <<60, 120, 240, 300, 300>>[i]

\* C33: every result returned by research(), resume() or research_stream()
\* has status Completed
ReturnedResultIsCompleted ==
    pc = "done" => result.status = "COMPLETED"

\* a resumed operation was seen not finished, then a get failed, then it
\* returned a result
CompletedAfterOtherStatuses ==
    /\ op = "resume"
    /\ pc = "done"
    /\ nonTerminal > 0
    /\ failures > 0
    /\ result.status = "COMPLETED"

\* C34: research_stream() returns a result only if a completing event was
\* processed on some stream of the call or the fallback get reported
\* 'completed'; never when every stream merely ended
StreamReturnsOnlyWhenCompleted ==
    (op = "stream" /\ pc = "done")
        => (is_complete \/ streamOutcome = "fallback_ok")

\* C35: in research_stream(), once an identifier has been captured no further
\* create call is issued and the captured identifier never changes
NoCreateAfterCapture ==
    [][(op = "stream" /\ interaction_id \notin {Absent, NoneVal, ""})
          => (creates' = creates /\ interaction_id' = interaction_id)]_vars

SubmitSleepThenCreate ==
    (op = "research" /\ lastEv.kind = "sleep" /\ lastEv.why \in {"rate", "retry"})
        => pc = "create"

\* a poll whose get returned a non-terminal response but whose iteration did
\* not end in the poll_interval sleep: on_thought raised
CallbackFailedStep ==
    /\ gets' = gets + 1
    /\ nonTerminal' = nonTerminal + 1
    /\ lastEv' # Ev("sleep", "poll", cfg.poll_interval)

\* a callback that fails on every poll: no get has failed
NoNetworkErrorFromCallback ==
    (cfg.max_retries >= 1 /\ failures' = 0 /\ interaction_id' # Absent)
        => exc'.kind # "ProbeNetworkError"

\* C38 as stated: an exception raised by on_thought in the poll loop is counted
\* as one consecutive error after the reset, is followed by a sleep of
\* base_retry_delay * 1 in place of the poll_interval sleep and the loop goes
\* on to a new get; with max_retries >= 1 a callback that fails on every poll
\* never causes ProbeNetworkError
CallbackErrorSleptAndRetried ==
    [][/\ CallbackFailedStep
          => /\ consecutive_errors' = 1
             /\ pc' = "poll"
             /\ exc' = exc
             /\ lastEv' = Ev("sleep", "poll_retry", cfg.base_retry_delay)
             /\ pollSleeps' = pollSleeps
       /\ NoNetworkErrorFromCallback]_vars

\* C38 amended: the same when max_retries >= 1; with max_retries = 0 the one
\* counted error already exceeds max_retries and the call raises
\* ProbeNetworkError carrying the identifier, without sleeping
CallbackErrorCountedAsPollError ==
    [][/\ CallbackFailedStep
          => /\ consecutive_errors' = 1
             /\ pollSleeps' = pollSleeps
             /\ IF cfg.max_retries >= 1
                THEN /\ pc' = "poll"
                     /\ exc' = exc
                     /\ lastEv' = Ev("sleep", "poll_retry", cfg.base_retry_delay)
                     /\ nSleeps' = nSleeps + 1
                     /\ clock' - clock \in
                          {l + cfg.base_retry_delay : l \in 0..MaxLatency}
                ELSE /\ pc' = "raised"
                     /\ exc' = Exc("ProbeNetworkError", interaction_id, 0, -1)
                     /\ nSleeps' = nSleeps
       /\ NoNetworkErrorFromCallback]_vars

\* two polls in a row on which on_thought raised, and the loop still polling
TwoFailedCallbacksStillPolling ==
    /\ op = "research"
    /\ pc = "poll"
    /\ gets = 2
    /\ nonTerminal = 2
    /\ failures = 0
    /\ consecutive_errors = 1
    /\ lastEv = Ev("sleep", "poll_retry", cfg.base_retry_delay)

\* C39: in research_stream() with max_retries = 0, once the initial stream is
\* over with an identifier known and the operation not complete, no streaming
\* get is ever issued: the only further remote call is the one fallback get
\* for that identifier, after which the call returns the normalized response
\* or raises ProbeNetworkError
NoRetriesMeansFallbackOnly ==
    (op = "stream" /\ cfg.max_retries = 0)
        => /\ sgets = 0
           /\ creates <= 1
           /\ gets <= 1
           /\ pc = "s_reconnect" => gets = 0
           /\ gets = 1
                => /\ lastGetId = interaction_id
                   /\ \/ /\ pc = "done"
                         /\ result = BuildResult(final_interaction, interaction_id)
                      \/ /\ pc = "raised"
                         /\ exc.kind = "ProbeNetworkError"

\* with max_retries = 0 the stream delivered text and ended, and the fallback
\* get returned the result
FallbackResultWithoutRetries ==
    /\ op = "stream"
    /\ cfg.max_retries = 0
    /\ report_parts # <<>>
    /\ streamOutcome = "fallback_ok"
    /\ pc = "done"
    /\ gets = 1
    /\ sgets = 0

\* the result holds what the callbacks of this call were given: the text
\* chunks joined in delivery order, and one thought per on_thought call
ResultHoldsWhatWasShown ==
    /\ result.report = InArrivalOrder(text_calls)
    /\ Len(result.thoughts) = Len(thought_calls)
    /\ \A i \in 1..Len(thought_calls) :
          result.thoughts[i].content = thought_calls[i]

====
